---- MODULE Spec2Model ----
(***************************************************************************)
(* Model of the P16 insights dashboard core: the per-metric fetchers of    *)
(* fetchers/github_fetcher.py and the cache orchestrator DataManager of    *)
(* data_manager.py.                                                         *)
(*                                                                          *)
(* Calendar days are integers; a timestamp is an integer count of          *)
(* time-of-day slots (SlotsPerDay slots make one day), so that two events  *)
(* of the same day have different timestamps and _to_date has work to do.  *)
(* A series (a DataFrame with a date column and a value column) is a       *)
(* sequence of rows [date, value].                                          *)
(***************************************************************************)
EXTENDS Integers, Sequences, FiniteSets, TLC

\* One run of one fetcher against a server that answers each request as it
\* likes.
VARIABLES
    fkind,      \* the fetcher running
    fpc,        \* where it is: "stats", "weeks", "request", "items", "done", "raised"
    fpage,      \* the page the listing loop is at
    fleft,      \* items of the current response still to be processed
    fplen,      \* number of items of the current response
    facc,       \* the rows accumulated by the listing loop
    srows,      \* the rows accumulated from the commit-activity weeks
    sweeks,     \* history: the week buckets received, in order
    sattempt,   \* the attempt of the commit-activity request, from 0
    freqs,      \* the requests issued so far, in order
    ffailed,    \* the page whose request came back non-200 (0: none)
    fresult,    \* the frame returned
    gdaily,     \* history: events received in HTTP 200 pages, per calendar day
    gassets     \* history: download counts received, of all releases and of the dated ones

\* The orchestrator, its cache directory and the remote repository.
VARIABLES
    focus,      \* the metric type this run's remote activity, faults and get_data calls are of
    now,        \* the clock, in hours
    files,      \* the cache artifact of each metric type
    remote,     \* the remote listing of each metric type, in the server's order
    remoteWeeks, \* the remote commit-activity week buckets
    faulted,    \* whether a request or a write has gone wrong in this run
    ncalls,     \* calls made so far
    call,       \* what the last call (or the last step of a bulk call) did
    bulk        \* the bulk call in progress: its loop over the metric types

\* One call of BaseFetcher._request.
VARIABLES
    rpc,        \* where the call is: "idle", "send", "sleep", "returned", "raised"
    rattempt,   \* the loop's attempt, from 0
    rbackoff,   \* backoff_s
    rwait,      \* the wait computed for the response just received
    rresps,     \* the responses received so far, in order
    rlog,       \* the requests sent and the sleeps taken, in order
    rret        \* the response returned

\* The GraphQL transport and the feature flag.
VARIABLES
    flag,       \* whether P16_USE_GRAPHQL is "1"
    entry,      \* how the fetcher was entered: "fetch", "fetch_all" ("none": not at all)
    gresp,      \* the last HTTP response to a GraphQL query
    gdata,      \* what GitHubGraphQL.query returned for it
    gqueries,   \* the number of GraphQL queries posted
    gitems      \* history: the number of nodes the GraphQL server has returned

\* Two processes refreshing the same metric of the same repository.
VARIABLES
    procs,      \* each process: where it is and the frames it holds
    lastw       \* history: the frame handed to the last write of the artifact

\* ------------------------------------------------------------------ bounds
MaxDate == 2
SlotsPerDay == 2
PerPage == 2
MaxPages == 2
IssuesMaxPages == 3
IssuesRowCap == 2
MaxAssets == 1
CommitsMaxPages == 10
MaxWeeks == 2
WeekLen == 2
StatsAttempts == 3
RefreshThresholdHours == 1
MaxTime == 2
MaxEvents == 2
MaxCalls == 2

\* ------------------------------------------------------------------ values
\* What _to_date returns for a timestamp it cannot parse; also the missing
\* timestamp field of an item.
NoDate == 0 - 1
NoTs == 0 - 1

Dates == 1 .. MaxDate
Timestamps == (SlotsPerDay) .. (SlotsPerDay * (MaxDate + 1) - 1)
DayStarts == {SlotsPerDay * d : d \in Dates}

Min(a, b) == IF a < b THEN a ELSE b
Max(a, b) == IF a > b THEN a ELSE b

\* BaseFetcher._to_date: the calendar day of a timestamp, None when the
\* timestamp does not parse.
ToDate(ts) == IF ts = NoTs THEN NoDate ELSE ts \div SlotsPerDay

\* ------------------------------------------------------------------ series
EmptySeries == << >>
Row(d, v) == [date |-> d, value |-> v]

RowDates(s) == {s[i].date : i \in 1 .. Len(s)}
UniqueDates(s) == \A i, j \in 1 .. Len(s) : i # j => s[i].date # s[j].date
SortedAscending(s) == \A i, j \in 1 .. Len(s) : i < j => s[i].date <= s[j].date
StrictlyAscending(s) == \A i, j \in 1 .. Len(s) : i < j => s[i].date < s[j].date

\* The accumulated event rows of a fetch (all_stars, dates, all_downloads ...)
\* as a bag: a function from the dates seen to the total of their rows'
\* values.  The source keeps a list; every consumer of it is a groupby-sum,
\* which the order of the list does not affect.
EmptyBag == [d \in {} |-> 0]
BagAdd(b, d, n) ==
    [x \in (DOMAIN b) \cup {d} |->
        IF x = d THEN (IF d \in DOMAIN b THEN b[d] + n ELSE n) ELSE b[x]]
BagTotal(b) ==
    LET RECURSIVE Tot(_)
        Tot(S) == IF S = {} THEN 0
                  ELSE LET d == CHOOSE x \in S : TRUE IN b[d] + Tot(S \ {d})
    IN Tot(DOMAIN b)

RECURSIVE SortedSeqOf(_)
SortedSeqOf(S) ==
    IF S = {} THEN << >>
    ELSE LET m == CHOOSE x \in S : \A y \in S : x <= y
         IN <<m>> \o SortedSeqOf(S \ {m})

\* df.groupby("date")[col].sum().reset_index().sort_values("date")
GroupByDateSum(b) ==
    LET ds == SortedSeqOf(DOMAIN b)
    IN [i \in 1 .. Len(ds) |-> Row(ds[i], b[ds[i]])]

\* df.sort_values("date") on rows that may repeat a date (the sort keeps the
\* arrival order of equal dates for frames this small).
RECURSIVE InsertRow(_, _)
InsertRow(s, r) ==
    IF s = << >> THEN <<r>>
    ELSE IF s[Len(s)].date <= r.date THEN Append(s, r)
    ELSE Append(InsertRow(SubSeq(s, 1, Len(s) - 1), r), s[Len(s)])
RECURSIVE SortValuesByDate(_)
SortValuesByDate(s) ==
    IF s = << >> THEN << >>
    ELSE InsertRow(SortValuesByDate(SubSeq(s, 1, Len(s) - 1)), s[Len(s)])

\* --------------------------------------------------------------- frames
\* A DataFrame: its column names and its rows.
Frame(cols, rows) == [columns |-> cols, rows |-> rows]
\* pd.DataFrame(): no columns, no rows.
BareFrame == Frame(<< >>, << >>)
IsEmptyFrame(df) == df.rows = << >>

\* The value column of each fetcher's two-column schema.
ValueColumn(kind) ==
    CASE kind = "stars" -> "stars"
      [] kind = "forks" -> "forks"
      [] kind = "prs" -> "pr_count"
      [] kind = "issues" -> "issues"
      [] kind = "commits" -> "commits"
      [] kind = "contributions" -> "commits"
      [] kind = "downloads" -> "downloads"
SchemaOf(kind) == <<"date", ValueColumn(kind)>>
\* pd.DataFrame(columns=["date", <value column>])
EmptyFrame(kind) == Frame(SchemaOf(kind), EmptySeries)

\* ------------------------------------------------- REST listing fetchers
\* The fetchers that page through a REST listing: StarsFetcher.fetch_rest,
\* ForksFetcher.fetch_rest, PRsFetcher.fetch, IssuesFetcher.fetch,
\* ContributionsFetcher._fetch_from_commits_api ("commits") and
\* DownloadsFetcher.fetch.
RestKinds == {"stars", "forks", "prs", "issues", "commits", "downloads"}

DownloadCounts == {0, 1, 2}
SeqsUpTo(S, n) == UNION {[1 .. k -> S] : k \in 0 .. n}

\* What the server can put in a page of each listing.
SimpleItems == [ts : Timestamps \cup {NoTs}]
IssueItems == [ts : Timestamps \cup {NoTs}, pr : BOOLEAN]
AssetItems == [ts : DayStarts \cup {NoTs}, count : DownloadCounts]
ReleaseItems == [ts : DayStarts \cup {NoTs}, assets : SeqsUpTo(AssetItems, MaxAssets)]
ItemsOf(kind) ==
    CASE kind = "issues" -> IssueItems
      [] kind = "downloads" -> ReleaseItems
      [] OTHER -> SimpleItems

\* The body of the loop over one page's items, per fetcher.
\* stars: starred_at present and parsed -> one row {"date", "stars": 1}.
StarsItemOncePerDay(all_stars, star) ==
    IF star.ts # NoTs /\ ToDate(star.ts) # NoDate
    THEN BagAdd(all_stars, ToDate(star.ts),
                IF ToDate(star.ts) \in DOMAIN all_stars THEN 0 ELSE 1)
    ELSE all_stars
StarsItem(all_stars, star) ==
    IF star.ts # NoTs /\ ToDate(star.ts) # NoDate
    THEN BagAdd(all_stars, ToDate(star.ts), 1) ELSE all_stars
ForksItem(all_forks, fork) ==
    IF fork.ts # NoTs /\ ToDate(fork.ts) # NoDate
    THEN BagAdd(all_forks, ToDate(fork.ts), 1) ELSE all_forks
PRsItem(dates, it) ==
    IF it.ts # NoTs /\ ToDate(it.ts) # NoDate
    THEN BagAdd(dates, ToDate(it.ts), 1) ELSE dates
\* issues: an item carrying the pull_request marker is skipped.
IssuesItemWithPulls(dates, it) ==
    IF it.ts # NoTs /\ ToDate(it.ts) # NoDate
    THEN BagAdd(dates, ToDate(it.ts), 1) ELSE dates
IssuesItem(dates, it) ==
    IF it.pr THEN dates
    ELSE IF it.ts # NoTs /\ ToDate(it.ts) # NoDate
         THEN BagAdd(dates, ToDate(it.ts), 1) ELSE dates
CommitsItem(all_commits, commit) ==
    IF commit.ts # NoTs /\ ToDate(commit.ts) # NoDate
    THEN BagAdd(all_commits, ToDate(commit.ts), 1) ELSE all_commits

\* The assets of a release added whatever their download count.
RECURSIVE DownloadsAssetsAnyCount(_, _, _)
DownloadsAssetsAnyCount(all_downloads, release_date, assets) ==
    IF assets = << >> THEN all_downloads
    ELSE LET asset == Head(assets)
             asset_date == IF asset.ts # NoTs THEN asset.ts ELSE release_date
             asset_ts == ToDate(asset_date)
             next == IF asset_ts # NoDate
                     THEN BagAdd(all_downloads, asset_ts, asset.count)
                     ELSE all_downloads
         IN DownloadsAssetsAnyCount(next, release_date, Tail(assets))

\* downloads: a release without a date is skipped; each asset's download
\* count goes to the asset's own date (the release's date when the asset has
\* none), assets with no downloads add nothing.
RECURSIVE DownloadsAssets(_, _, _)
DownloadsAssets(all_downloads, release_date, assets) ==
    IF assets = << >> THEN all_downloads
    ELSE LET asset == Head(assets)
             asset_date == IF asset.ts # NoTs THEN asset.ts ELSE release_date
             asset_ts == ToDate(asset_date)
             next == IF asset_ts # NoDate /\ asset.count > 0
                     THEN BagAdd(all_downloads, asset_ts, asset.count)
                     ELSE all_downloads
         IN DownloadsAssets(next, release_date, Tail(assets))
DownloadsItemAtReleaseDate(all_downloads, release) ==
    IF release.ts = NoTs \/ ToDate(release.ts) = NoDate THEN all_downloads
    ELSE DownloadsAssets(all_downloads, release.ts,
                         [i \in 1 .. Len(release.assets) |->
                            [ts |-> NoTs, count |-> release.assets[i].count]])
DownloadsItem(all_downloads, release) ==
    IF release.ts = NoTs \/ ToDate(release.ts) = NoDate THEN all_downloads
    ELSE DownloadsAssets(all_downloads, release.ts, release.assets)

RestItem(kind, acc, item) ==
    CASE kind = "stars" -> StarsItem(acc, item)
      [] kind = "forks" -> ForksItem(acc, item)
      [] kind = "prs" -> PRsItem(acc, item)
      [] kind = "issues" -> IssuesItem(acc, item)
      [] kind = "commits" -> CommitsItem(acc, item)
      [] kind = "downloads" -> DownloadsItem(acc, item)

\* The last page a fetcher's loop may request.
PageLimit(kind) ==
    CASE kind = "issues" -> IssuesMaxPages
      [] kind = "commits" -> Min(CommitsMaxPages, MaxPages)
      [] OTHER -> MaxPages

\* A loop that breaks after any short page, whatever the listing.
StopAfterShortPage(kind, n, acc) ==
    n < PerPage \/ (kind = "issues" /\ BagTotal(acc) > IssuesRowCap)

\* Whether the loop breaks after a page of n > 0 items has been processed.
StopAfterPage(kind, n, acc) ==
    CASE kind \in {"stars", "forks"} -> FALSE
      [] kind \in {"prs", "commits", "downloads"} -> n < PerPage
      [] kind = "issues" -> n < PerPage \/ BagTotal(acc) > IssuesRowCap

\* `if resp.status_code != 200: ... break`
StatusIgnored(status) == FALSE
StatusStops(status) == status # 200

\* What a fetcher returns from the rows it accumulated.
RestResultBare(kind, acc) ==
    IF acc = EmptyBag THEN BareFrame
    ELSE Frame(SchemaOf(kind), GroupByDateSum(acc))
RestResult(kind, acc) ==
    IF acc = EmptyBag THEN EmptyFrame(kind)
    ELSE Frame(SchemaOf(kind), GroupByDateSum(acc))

\* ------------------------------------------------ one fetch, step by step
fvars == <<fkind, fpc, fpage, fleft, fplen, facc, srows, sweeks, sattempt,
           freqs, ffailed, fresult, gdaily, gassets>>

HttpStatuses == {200, 404}
NoFrame == Frame(<<"none">>, << >>)

\* The listing a fetcher pages through: contributions reads the commits
\* listing once the commit-activity path has produced nothing.
ListingOf(kind) == IF kind = "contributions" THEN "commits" ELSE kind

\* The events a listing item stands for, as the pairs <<day, weight>> the
\* aggregation is about: one per dated star, fork, pull request, commit or
\* issue that is not a pull request, and one per asset with downloads.
DayOf(ts) == ts \div SlotsPerDay
ItemEvents(kind, item) ==
    IF kind = "downloads"
    THEN IF item.ts = NoTs THEN {}
         ELSE {<<i, DayOf(IF item.assets[i].ts # NoTs THEN item.assets[i].ts ELSE item.ts),
                 item.assets[i].count>> :
               i \in {j \in 1 .. Len(item.assets) : item.assets[j].count > 0}}
    ELSE IF item.ts = NoTs \/ (kind = "issues" /\ item.pr) THEN {}
         ELSE {<<1, DayOf(item.ts), 1>>}
RECURSIVE AddEvents(_, _)
AddEvents(b, evs) ==
    IF evs = {} THEN b
    ELSE LET e == CHOOSE x \in evs : TRUE
         IN AddEvents(BagAdd(b, e[2], e[3]), evs \ {e})

\* The download counts a release carries, added to the counts seen so far.
RECURSIVE CountsOf(_)
CountsOf(assets) ==
    IF assets = << >> THEN 0 ELSE Head(assets).count + CountsOf(Tail(assets))
NoAssets == [all |-> 0, dated |-> 0]
AssetsSeen(seen, release) ==
    [all |-> seen.all + CountsOf(release.assets),
     dated |-> seen.dated + (IF release.ts = NoTs THEN 0 ELSE CountsOf(release.assets))]

FetchInit(kinds) ==
    /\ fkind \in kinds
    /\ fpc = IF fkind = "contributions" THEN "stats" ELSE "request"
    /\ fpage = 1
    /\ fleft = 0
    /\ fplen = 0
    /\ facc = EmptyBag
    /\ srows = << >>
    /\ sweeks = << >>
    /\ sattempt = 0
    /\ freqs = << >>
    /\ ffailed = 0
    /\ fresult = NoFrame
    /\ gdaily = EmptyBag
    /\ gassets = NoAssets

\* One pass of the listing loop up to the response: the request of page
\* fpage and the checks of its status and of an empty page.
FetchRequest ==
    /\ fpc = "request"
    /\ fpage <= PageLimit(ListingOf(fkind))
    /\ freqs' = Append(freqs, fpage)
    /\ \/ \* requests.get raises (timeout, connection error)
          /\ fpc' = "raised"
          /\ UNCHANGED <<fpage, fleft, fplen, facc, ffailed, fresult>>
       \/ \E status \in HttpStatuses, n \in 0 .. PerPage :
            IF StatusStops(status)
            THEN /\ n = 0
                 /\ fpc' = "done"
                 /\ ffailed' = IF ffailed = 0 THEN fpage ELSE ffailed
                 /\ fresult' = RestResult(ListingOf(fkind), facc)
                 /\ UNCHANGED <<fpage, fleft, fplen, facc>>
            ELSE /\ ffailed' = IF status # 200 /\ ffailed = 0 THEN fpage ELSE ffailed
                 /\ IF n = 0
                    THEN /\ fpc' = "done"
                         /\ fresult' = RestResult(ListingOf(fkind), facc)
                         /\ UNCHANGED <<fpage, fleft, fplen, facc>>
                    ELSE /\ fpc' = "items"
                         /\ fleft' = n
                         /\ fplen' = n
                         /\ UNCHANGED <<fpage, facc, fresult>>
    /\ UNCHANGED <<fkind, srows, sweeks, sattempt, gdaily, gassets>>

\* One item of the page: the loop body, and after the page's last item the
\* loop's break conditions and its bound.
FetchItem ==
    /\ fpc = "items"
    /\ \E item \in ItemsOf(ListingOf(fkind)) :
         LET acc == RestItem(ListingOf(fkind), facc, item)
         IN /\ facc' = acc
            /\ gdaily' = IF ffailed = 0
                         THEN AddEvents(gdaily, ItemEvents(ListingOf(fkind), item))
                         ELSE gdaily
            /\ gassets' = IF ListingOf(fkind) = "downloads"
                          THEN AssetsSeen(gassets, item) ELSE gassets
            /\ fleft' = fleft - 1
            /\ IF fleft > 1
               THEN UNCHANGED <<fpc, fpage, fresult>>
               ELSE IF StopAfterPage(ListingOf(fkind), fplen, acc)
                       \/ fpage + 1 > PageLimit(ListingOf(fkind))
                    THEN /\ fpc' = "done"
                         /\ fresult' = RestResult(ListingOf(fkind), acc)
                         /\ UNCHANGED fpage
                    ELSE /\ fpc' = "request"
                         /\ fpage' = fpage + 1
                         /\ UNCHANGED fresult
    /\ UNCHANGED <<fkind, fplen, srows, sweeks, sattempt, freqs, ffailed>>

\* -------------------------------------------- commit-activity statistics
CommitCounts == {0, 1, 2}
\* A week bucket: its start and its daily counts.
WeekItems == [week : DayStarts, days : SeqsUpTo(CommitCounts, WeekLen)]

\* The rows of one week bucket: day i of the week, for the days with commits.
RECURSIVE WeekRowsAllDays(_, _, _)
WeekRowsAllDays(base, daily_counts, i) ==
    IF i > Len(daily_counts) THEN << >>
    ELSE <<Row(ToDate(base + SlotsPerDay * (i - 1)), daily_counts[i])>>
         \o WeekRowsAllDays(base, daily_counts, i + 1)
RECURSIVE WeekRows(_, _, _)
WeekRows(base, daily_counts, i) ==
    IF i > Len(daily_counts) THEN << >>
    ELSE (IF daily_counts[i] > 0
          THEN <<Row(ToDate(base + SlotsPerDay * (i - 1)), daily_counts[i])>>
          ELSE << >>) \o WeekRows(base, daily_counts, i + 1)

\* What _fetch_from_stats_api returns from the rows of all weeks: the rows
\* sorted by date, with no grouping.
StatsResult(rows) ==
    IF rows = << >> THEN EmptyFrame("contributions")
    ELSE Frame(SchemaOf("contributions"), SortValuesByDate(rows))

\* A fetch that reads the commits listing whatever the stats path returned.
StatsDoneAlwaysFallback(stats_data) ==
    /\ fpc' = "request"
    /\ UNCHANGED fresult

\* ContributionsFetcher.fetch after the stats path returned stats_data: the
\* stats frame when it has rows, else the commits listing is read.
StatsDone(stats_data) ==
    IF ~IsEmptyFrame(stats_data)
    THEN /\ fpc' = "done"
         /\ fresult' = stats_data
    ELSE /\ fpc' = "request"
         /\ UNCHANGED fresult

\* One attempt of the commit-activity request.
StatsRequest ==
    /\ fpc = "stats"
    /\ sattempt < StatsAttempts
    /\ freqs' = Append(freqs, 0)
    /\ \/ /\ fpc' = "raised"
          /\ UNCHANGED <<sattempt, fleft, fplen, fresult>>
       \/ \* 202: the statistics are still being computed
          /\ IF sattempt < StatsAttempts - 1
             THEN /\ sattempt' = sattempt + 1
                  /\ UNCHANGED <<fpc, fresult>>
             ELSE /\ StatsDone(EmptyFrame("contributions"))
                  /\ UNCHANGED sattempt
          /\ UNCHANGED <<fleft, fplen>>
       \/ \* any other status than 200 and 202
          /\ StatsDone(EmptyFrame("contributions"))
          /\ UNCHANGED <<sattempt, fleft, fplen>>
       \/ \* 200 with n week buckets
          \E n \in 0 .. MaxWeeks :
            IF n = 0
            THEN /\ StatsDone(EmptyFrame("contributions"))
                 /\ UNCHANGED <<sattempt, fleft, fplen>>
            ELSE /\ fpc' = "weeks"
                 /\ fleft' = n
                 /\ fplen' = n
                 /\ UNCHANGED <<sattempt, fresult>>
    /\ UNCHANGED <<fkind, fpage, facc, srows, sweeks, ffailed, gdaily, gassets>>

\* One week bucket of the response, and after the last one the return.
StatsWeek ==
    /\ fpc = "weeks"
    /\ \E week \in WeekItems :
         LET rows == srows \o WeekRows(week.week, week.days, 1)
         IN /\ srows' = rows
            /\ sweeks' = Append(sweeks, week)
            /\ fleft' = fleft - 1
            /\ IF fleft > 1
               THEN UNCHANGED <<fpc, fresult>>
               ELSE StatsDone(StatsResult(rows))
    /\ UNCHANGED <<fkind, fpage, fplen, facc, sattempt, freqs, ffailed, gdaily,
                   gassets>>


\* ------------------------------------------------- a whole fetch at once
\* The same fetchers run to completion against a remote listing served
\* PerPage items at a time, with at most one request going wrong.
NoFault == [how |-> "none", page |-> 0]
FetchFaults == [how : {"status", "raise"}, page : 0 .. MaxPages]

\* The page of a listing the server returns for ?page=p&per_page=PerPage.
PageItems(items, p) ==
    SubSeq(items, (p - 1) * PerPage + 1, Min(p * PerPage, Len(items)))

RECURSIVE FoldItems(_, _, _)
FoldItems(kind, acc, items) ==
    IF items = << >> THEN acc
    ELSE FoldItems(kind, RestItem(kind, acc, Head(items)), Tail(items))

Returned(df, n) == [raised |-> FALSE, frame |-> df, nreq |-> n]
Raised(n) == [raised |-> TRUE, frame |-> NoFrame, nreq |-> n]

\* The listing loop of a fetcher from page `page` on.
RECURSIVE RunListing(_, _, _, _, _, _)
RunListing(kind, items, fault, page, acc, nreq) ==
    IF page > PageLimit(kind) THEN Returned(RestResult(kind, acc), nreq)
    ELSE IF fault.how = "raise" /\ fault.page = page THEN Raised(nreq + 1)
    ELSE LET status == IF fault.how = "status" /\ fault.page = page THEN 404 ELSE 200
             its == IF status = 200 THEN PageItems(items, page) ELSE << >>
             acc2 == FoldItems(kind, acc, its)
         IN IF StatusStops(status) \/ its = << >>
            THEN Returned(RestResult(kind, acc), nreq + 1)
            ELSE IF StopAfterPage(kind, Len(its), acc2)
                 THEN Returned(RestResult(kind, acc2), nreq + 1)
                 ELSE RunListing(kind, items, fault, page + 1, acc2, nreq + 1)

RECURSIVE AllWeekRows(_)
AllWeekRows(weeks) ==
    IF weeks = << >> THEN << >>
    ELSE WeekRows(Head(weeks).week, Head(weeks).days, 1) \o AllWeekRows(Tail(weeks))

\* ContributionsFetcher.fetch: the commit-activity statistics (request 0 of
\* the fault), and the commits listing when they yield no row.
FetchContributions(weeks, items, fault) ==
    IF fault.how = "raise" /\ fault.page = 0 THEN Raised(1)
    ELSE LET stats_data ==
                 IF (fault.how = "status" /\ fault.page = 0) \/ weeks = << >>
                 THEN EmptyFrame("contributions")
                 ELSE StatsResult(AllWeekRows(weeks))
         IN IF ~IsEmptyFrame(stats_data) THEN Returned(stats_data, 1)
            ELSE RunListing("commits", items, fault, 1, EmptyBag, 1)

\* <metric>_fetcher.fetch(owner, repo) with the REST transport.
FetcherFetch(t, weeks, items, fault) ==
    IF t = "contributions" THEN FetchContributions(weeks, items, fault)
    ELSE RunListing(t, items, fault, 1, EmptyBag, 0)

\* ------------------------------------------------------------ DataManager
ovars == <<focus, now, files, remote, remoteWeeks, faulted, ncalls, call, bulk>>
rvars == <<rpc, rattempt, rbackoff, rwait, rresps, rlog, rret>>
gvars == <<flag, entry, gresp, gdata, gqueries, gitems>>
cvars == <<procs, lastw>>
vars == <<fvars, ovars, rvars, gvars, cvars>>

\* self.types
Types == <<"stars", "forks", "prs", "downloads", "issues", "contributions">>
TypeSet == {Types[i] : i \in 1 .. Len(Types)}

\* The artifact on disk: df.to_csv(path, index=False) writes the header and
\* one line per row; the loader reads it back into a frame.
ToCsv(df) ==
    [header |-> df.columns,
     lines |-> [i \in 1 .. Len(df.rows) |-> <<df.rows[i].date, df.rows[i].value>>]]
LoadCsv(csv) ==
    Frame(csv.header, [i \in 1 .. Len(csv.lines) |-> Row(csv.lines[i][1], csv.lines[i][2])])
NoFile == [exists |-> FALSE, mtime |-> 0, csv |-> ToCsv(BareFrame)]
Written(df, t) == [exists |-> TRUE, mtime |-> t, csv |-> ToCsv(df)]

\* DataLoader.get_for: the series of the artifact, the empty series of the
\* metric's schema when there is no artifact.
LoaderGetFor(t) ==
    IF files[t].exists THEN LoadCsv(files[t].csv) ELSE EmptyFrame(t)
\* DataManager._load_data
LoadData(t) == LoaderGetFor(t)

\* DataManager._is_data_stale
AgeHours(t) == now - files[t].mtime
IsDataStaleInclusive(t) ==
    IF ~files[t].exists THEN TRUE
    ELSE AgeHours(t) >= RefreshThresholdHours
IsDataStaleAfterAnyTime(t) ==
    IF ~files[t].exists THEN TRUE
    ELSE AgeHours(t) > 0
IsDataStale(t) ==
    IF ~files[t].exists THEN TRUE
    ELSE AgeHours(t) > RefreshThresholdHours

\* get_data's decision to fetch: `if force_refresh or self._is_data_stale(path)`
ShouldFetchAlways(t, force) == TRUE
ShouldFetch(t, force) == force \/ IsDataStale(t)

\* DataManager._fetch_and_save_data for a known metric type: what it returns
\* and the artifact it leaves, given how the fetch and the write go.
\* A write that fails leaves the artifact as it was.
FetchAndSaveDataCachedFallback(t, fault, wfail) ==
    LET got == FetcherFetch(t, remoteWeeks, remote[t], fault)
    IN IF got.raised
       THEN [ret |-> LoaderGetFor(t), file |-> files[t], got |-> got]
       ELSE IF got.frame.columns # SchemaOf(t)
       THEN [ret |-> EmptyFrame(t), file |-> files[t], got |-> got]
       ELSE [ret |-> got.frame,
             file |-> IF wfail THEN files[t] ELSE Written(got.frame, now),
             got |-> got]
FetchAndSaveDataWriteFatal(t, fault, wfail) ==
    LET got == FetcherFetch(t, remoteWeeks, remote[t], fault)
    IN IF got.raised \/ wfail
       THEN [ret |-> EmptyFrame(t), file |-> files[t], got |-> got]
       ELSE IF got.frame.columns # SchemaOf(t)
       THEN [ret |-> EmptyFrame(t), file |-> files[t], got |-> got]
       ELSE [ret |-> got.frame, file |-> Written(got.frame, now), got |-> got]
FetchAndSaveData(t, fault, wfail) ==
    LET got == FetcherFetch(t, remoteWeeks, remote[t], fault)
    IN IF got.raised
       THEN [ret |-> EmptyFrame(t), file |-> files[t], got |-> got]
       ELSE IF got.frame.columns # SchemaOf(t)
       THEN [ret |-> EmptyFrame(t), file |-> files[t], got |-> got]
       ELSE [ret |-> got.frame,
             file |-> IF wfail THEN files[t] ELSE Written(got.frame, now),
             got |-> got]

\* merged.drop_duplicates(subset=["date"]): the first row of each date stays.
RECURSIVE DropDuplicates(_)
DropDuplicates(rows) ==
    IF rows = << >> THEN << >>
    ELSE LET init == DropDuplicates(SubSeq(rows, 1, Len(rows) - 1))
             last == rows[Len(rows)]
         IN IF last.date \in RowDates(init) THEN init ELSE Append(init, last)
\* pd.concat([cached, fresh]).drop_duplicates(subset=["date"]).sort_values("date")
MergeFrames(cached, fresh) ==
    Frame(cached.columns, SortValuesByDate(DropDuplicates(cached.rows \o fresh.rows)))

MinDateOf(rows) == CHOOSE d \in RowDates(rows) : \A e \in RowDates(rows) : d <= e
MaxDateOf(rows) == CHOOSE d \in RowDates(rows) : \A e \in RowDates(rows) : d >= e

\* The faults a step may meet: at most one request or write goes wrong in a
\* run.
FaultChoices(t) ==
    {NoFault} \cup
    (IF faulted \/ t # focus THEN {}
     ELSE {f \in FetchFaults : (f.page = 0) = (t = "contributions")
                               /\ f.page <= Len(remote[t]) \div PerPage + 1})
WriteFailChoices(t, fault) ==
    {FALSE} \cup (IF faulted \/ t # focus \/ fault # NoFault THEN {} ELSE {TRUE})


\* What the remote repository can gain: a dated star, fork, pull request,
\* issue or commit, a release with one downloaded asset, a week bucket.
RemoteItems(t) ==
    CASE t = "issues" -> [ts : DayStarts, pr : {FALSE}]
      [] t = "downloads" -> [ts : DayStarts, assets : {<<[ts |-> NoTs, count |-> 1]>>}]
      [] OTHER -> [ts : DayStarts]
RemoteWeekItems == [week : DayStarts, days : {<<1>>}]
RECURSIVE RemoteSize(_)
RemoteSize(i) == IF i = 0 THEN Len(remoteWeeks) ELSE Len(remote[Types[i]]) + RemoteSize(i - 1)

NoBulk == [op |-> "none", list |-> << >>, idx |-> 1, start |-> 0, end |-> 0,
           force |-> FALSE, phase |-> "fetch", cached |-> NoFrame,
           fresh |-> NoFrame, result |-> << >>]
\* What an unforced get_data remembers of the unforced get_data that came
\* right before it.
Summary(c) == [op |-> c.op, type |-> c.type, force |-> c.force,
               existed |-> c.existed, age |-> c.age, ret |-> c.ret]
NoPrev == [op |-> "none", type |-> "none", force |-> FALSE, existed |-> FALSE,
           age |-> 0, ret |-> NoFrame]
NoCall == [op |-> "none", type |-> "none", force |-> FALSE, at |-> 0,
           existed |-> FALSE,
           age |-> 0, stale |-> FALSE, fetched |-> FALSE, raised |-> FALSE,
           fault |-> NoFault, wfail |-> FALSE, nreq |-> 0, fresh |-> NoFrame,
           cached |-> NoFrame, ret |-> NoFrame, prev |-> NoPrev]
\* No bulk call is running.
Idle == bulk.idx > Len(bulk.list)
Put(result, t, df) ==
    [x \in (DOMAIN result) \cup {t} |-> IF x = t THEN df ELSE result[x]]

OrchInit ==
    /\ focus \in TypeSet
    /\ now = 0
    /\ files = [t \in TypeSet |-> NoFile]
    /\ remote = [t \in TypeSet |-> << >>]
    /\ remoteWeeks = << >>
    /\ faulted = FALSE
    /\ ncalls = 0
    /\ call = NoCall
    /\ bulk = NoBulk

\* An hour passes.
Tick ==
    /\ Idle
    /\ ncalls < MaxCalls \/ call = NoCall
    /\ now < MaxTime
    /\ now' = now + 1
    /\ bulk' = NoBulk
    /\ UNCHANGED <<focus, files, remote, remoteWeeks, faulted, ncalls, call>>

\* Activity on the remote repository.  A run follows a repository whose
\* activity is of one metric type.
RemoteEvent ==
    /\ Idle
    /\ RemoteSize(Len(Types)) < MaxEvents
    /\ ncalls < MaxCalls
    /\ \/ \E item \in RemoteItems(focus) :
            /\ remote' = [remote EXCEPT ![focus] = Append(@, item)]
            /\ UNCHANGED remoteWeeks
       \/ \E week \in RemoteWeekItems :
            /\ focus = "contributions"
            /\ remoteWeeks' = Append(remoteWeeks, week)
            /\ UNCHANGED remote
    /\ call' = NoCall
    /\ bulk' = NoBulk
    /\ UNCHANGED <<focus, now, files, faulted, ncalls>>

\* What a step of a call records about metric type t.
CallRecord(op, t, force, fetched, r, fault, wfail, cached, ret) ==
    [op |-> op, type |-> t, force |-> force, at |-> now,
     existed |-> files[t].exists,
     age |-> IF files[t].exists THEN AgeHours(t) ELSE 0,
     stale |-> IsDataStale(t), fetched |-> fetched,
     raised |-> IF fetched THEN r.got.raised ELSE FALSE,
     fault |-> fault, wfail |-> wfail,
     nreq |-> IF fetched THEN r.got.nreq ELSE 0,
     fresh |-> IF fetched THEN r.got.frame ELSE NoFrame,
     cached |-> cached, ret |-> ret,
     prev |-> IF op = "get_data" /\ ~force /\ call.op = "get_data" /\ ~call.force
              THEN Summary(call) ELSE NoPrev]

\* DataManager.get_data(data_type, owner, repo, force_refresh)
GetData ==
    /\ Idle
    /\ \E t \in {focus}, force \in BOOLEAN :
         IF ShouldFetch(t, force)
         THEN /\ ncalls < MaxCalls
              /\ ncalls' = ncalls + 1
              /\ \E fault \in FaultChoices(t) : \E wfail \in WriteFailChoices(t, fault) :
                   LET r == FetchAndSaveData(t, fault, wfail)
                   IN /\ files' = [files EXCEPT ![t] = r.file]
                      /\ faulted' = (faulted \/ fault # NoFault \/ wfail)
                      /\ call' = CallRecord("get_data", t, force, TRUE, r, fault, wfail,
                                            LoaderGetFor(t), r.ret)
         ELSE /\ call' = CallRecord("get_data", t, force, FALSE, NoCall, NoFault, FALSE,
                                    LoaderGetFor(t), LoadData(t))
              /\ UNCHANGED <<files, faulted, ncalls>>
    /\ UNCHANGED <<focus, now, remote, remoteWeeks, bulk>>

\* DataManager.get_all_cached_data_for_range: the call and its arguments.
RangeBegin ==
    /\ Idle
    /\ ncalls < MaxCalls
    /\ ncalls' = ncalls + 1
    /\ \E start \in Dates, end \in Dates, force \in BOOLEAN :
         /\ start <= end
         /\ bulk' = [NoBulk EXCEPT !.op = "range", !.list = Types, !.start = start,
                                   !.end = end, !.force = force]
    /\ call' = NoCall
    /\ UNCHANGED <<focus, now, files, remote, remoteWeeks, faulted>>

\* Whether the cached series covers the requested window and is not stale.
RangeCoveredFromStart(t, cached, start, end) ==
    /\ MinDateOf(cached.rows) <= start
    /\ ~IsDataStale(t)
RangeCovered(t, cached, start, end) ==
    /\ MinDateOf(cached.rows) <= start
    /\ MaxDateOf(cached.rows) >= end
    /\ ~IsDataStale(t)

\* DataManager._fetch_missing_data: always an empty frame.
FetchMissingData(t, cached) == BareFrame

\* Whether the loop's pass for type t fetches: forced, nothing cached, or the
\* cache does not cover the window (the missing-range fetch yields nothing,
\* so the full fetch follows).
NeedFetch(t, cached, start, end, force) ==
    IF force \/ IsEmptyFrame(cached) THEN TRUE
    ELSE IF RangeCovered(t, cached, start, end) THEN FALSE
    ELSE IsEmptyFrame(FetchMissingData(t, cached))

\* One pass of the loop over the types, up to the full fetch: the cached
\* series is read, and either serves the type or the fetch is made (which
\* saves the fresh series).
RangeFetch ==
    /\ bulk.op = "range"
    /\ ~Idle
    /\ bulk.phase = "fetch"
    /\ LET t == bulk.list[bulk.idx]
           cached == IF files[t].exists THEN LoadData(t) ELSE EmptyFrame(t)
       IN IF NeedFetch(t, cached, bulk.start, bulk.end, bulk.force)
          THEN \E fault \in FaultChoices(t) : \E wfail \in WriteFailChoices(t, fault) :
                 LET r == FetchAndSaveData(t, fault, wfail)
                 IN /\ files' = [files EXCEPT ![t] = r.file]
                    /\ faulted' = (faulted \/ fault # NoFault \/ wfail)
                    /\ call' = CallRecord("range_fetch", t, bulk.force, TRUE, r, fault, wfail,
                                          cached, NoFrame)
                    /\ bulk' = [bulk EXCEPT !.phase = "merge", !.cached = cached,
                                            !.fresh = r.ret]
          ELSE /\ call' = CallRecord("range", t, bulk.force, FALSE, NoCall, NoFault, FALSE,
                                     cached, cached)
               /\ bulk' = [bulk EXCEPT !.idx = @ + 1,
                                       !.result = Put(@, t, cached)]
               /\ UNCHANGED <<files, faulted>>
    /\ UNCHANGED <<focus, now, remote, remoteWeeks, ncalls>>

\* The rest of the pass: the fresh series is merged with the cached one, the
\* merged series is persisted and becomes the type's result.
RangeMerge ==
    /\ bulk.op = "range"
    /\ ~Idle
    /\ bulk.phase = "merge"
    /\ LET t == bulk.list[bulk.idx]
           merged == IF IsEmptyFrame(bulk.cached) THEN bulk.fresh
                     ELSE MergeFrames(bulk.cached, bulk.fresh)
       IN \E wfail \in WriteFailChoices(t, NoFault) :
            /\ files' = [files EXCEPT ![t] = IF wfail THEN @ ELSE Written(merged, now)]
            /\ faulted' = (faulted \/ wfail)
            /\ call' = [call EXCEPT !.op = "range", !.ret = merged, !.wfail = wfail,
                                     !.fresh = bulk.fresh]
            /\ bulk' = [bulk EXCEPT !.idx = @ + 1, !.phase = "fetch",
                                    !.cached = NoFrame, !.fresh = NoFrame,
                                    !.result = Put(@, t, merged)]
    /\ UNCHANGED <<focus, now, remote, remoteWeeks, ncalls>>

\* DataManager.force_fetch_real_data with its default data_types.
ForceTypesAll == Types
ForceTypes == <<"downloads", "contributions">>
ForceBegin ==
    /\ Idle
    /\ ncalls < MaxCalls
    /\ ncalls' = ncalls + 1
    /\ bulk' = [NoBulk EXCEPT !.op = "force", !.list = ForceTypes, !.force = TRUE]
    /\ call' = NoCall
    /\ UNCHANGED <<focus, now, files, remote, remoteWeeks, faulted>>

\* One pass of its loop: the type is fetched and saved whatever its artifact.
ForceFetch ==
    /\ bulk.op = "force"
    /\ ~Idle
    /\ LET t == bulk.list[bulk.idx]
       IN \E fault \in FaultChoices(t) : \E wfail \in WriteFailChoices(t, fault) :
            LET r == FetchAndSaveData(t, fault, wfail)
            IN /\ files' = [files EXCEPT ![t] = r.file]
               /\ faulted' = (faulted \/ fault # NoFault \/ wfail)
               /\ call' = CallRecord("force", t, TRUE, TRUE, r, fault, wfail,
                                     LoaderGetFor(t), r.ret)
               /\ bulk' = [bulk EXCEPT !.idx = @ + 1, !.result = Put(@, t, r.ret)]
    /\ UNCHANGED <<focus, now, remote, remoteWeeks, ncalls>>

\* ------------------------------------------------------ GitHubGraphQL
GqlPageSize == 1
GqlServerPages == 3
GqlMaxPages == 2
GqlIssuesMaxPages == 2
GqlIssuesRowCap == 2

GraphQLKinds == {"stars", "forks", "prs", "issues"}

\* The value of a response's "data" key, by its shape: the key is absent,
\* null, a mapping without the repository, a null repository, or the
\* repository with the connection asked for (its items, hasNextPage, and
\* whether endCursor is set).
NoConnection(shape) == [shape |-> shape, items |-> << >>, more |-> FALSE, cursor |-> FALSE]
GqlNodes == [ts : DayStarts \cup {NoTs}]
GqlData ==
    {NoConnection(sh) : sh \in {"absent", "null", "norepo", "nullrepo"}}
    \cup [shape : {"conn"}, items : SeqsUpTo(GqlNodes, GqlPageSize),
          more : BOOLEAN, cursor : BOOLEAN]
\* The HTTP responses to a query: a status, a JSON body that is null or an
\* object, whether the object has an "errors" key, and its "data".
GqlResponses ==
    [status : {200}, body : {"object"}, errors : BOOLEAN, data : GqlData]
    \cup [status : {200}, body : {"null"}, errors : {FALSE},
          data : {NoConnection("absent")}]
    \cup [status : {404}, body : {"object"}, errors : {FALSE},
          data : {NoConnection("absent")}]

\* The mapping GitHubGraphQL.query returns.
EmptyMapping == NoConnection("empty")
NoGqlResponse == [status |-> 0, body |-> "none", errors |-> FALSE, data |-> EmptyMapping]

\* GitHubGraphQL.query once the response is there: {} on a non-200 status,
\* else the body's "data" ({} when the body is null or has no such key).
GqlQueryReturn(resp) ==
    IF resp.status # 200 THEN EmptyMapping
    ELSE IF resp.body = "null" THEN EmptyMapping
    ELSE IF resp.data.shape = "absent" THEN EmptyMapping
    ELSE resp.data

\* The field of the connection each query asks for, and the field each
\* fetcher reads from the connection it gets.
QueryField(kind) == IF kind = "stars" THEN "edges" ELSE "nodes"
ReadField(kind) == IF kind \in {"stars", "issues"} THEN "edges" ELSE "nodes"
\* The items the fetcher's loop iterates over.
GqlItemsRead(kind, data) ==
    IF data.shape = "conn" /\ ReadField(kind) = QueryField(kind) THEN data.items
    ELSE << >>

\* The last page a GraphQL loop may ask for; the stars loop is `while True`
\* and has none.
GqlHasPageLimit(kind) == kind # "stars"
GqlPageLimit(kind) ==
    CASE kind = "issues" -> GqlIssuesMaxPages
      [] kind \in {"forks", "prs"} -> GqlMaxPages
      [] kind = "stars" -> GqlServerPages

\* Whether the loop ends after a page: no connection, no next page, no
\* cursor (stars), enough rows (issues), or the loop's bound.
GqlStopAfterPage(kind, data, acc, page) ==
    \/ data.shape # "conn"
    \/ ~data.more
    \/ (kind = "stars" /\ ~data.cursor)
    \/ (kind = "issues" /\ BagTotal(acc) > GqlIssuesRowCap)
    \/ (GqlHasPageLimit(kind) /\ page + 1 > GqlPageLimit(kind))

\* daily["forks"] = daily["delta"].cumsum()
CumSumLeftOut(rows) == rows
RECURSIVE CumSum(_)
CumSum(rows) ==
    IF rows = << >> THEN << >>
    ELSE LET init == CumSum(SubSeq(rows, 1, Len(rows) - 1))
             last == rows[Len(rows)]
         IN Append(init, Row(last.date,
                             last.value + (IF init = << >> THEN 0
                                           ELSE init[Len(init)].value)))

\* What fetch_graphql returns from the dates it accumulated.
GqlResult(kind, acc) ==
    IF acc = EmptyBag THEN EmptyFrame(kind)
    ELSE IF kind = "forks"
         THEN Frame(SchemaOf(kind), CumSum(GroupByDateSum(acc)))
         ELSE Frame(SchemaOf(kind), GroupByDateSum(acc))

GqlIdle ==
    /\ flag = FALSE
    /\ entry = "none"
    /\ gresp = NoGqlResponse
    /\ gdata = EmptyMapping
    /\ gqueries = 0
    /\ gitems = 0

\* The end of a page of a GraphQL loop: the next query or the return.
GqlPageEnd(data, acc) ==
    IF GqlStopAfterPage(fkind, data, acc, fpage)
    THEN /\ fpc' = "done"
         /\ fresult' = GqlResult(fkind, acc)
         /\ UNCHANGED fpage
    ELSE /\ fpc' = "gquery"
         /\ fpage' = Min(fpage + 1, GqlServerPages + 1)
         /\ UNCHANGED fresult

\* One pass of a fetch_graphql loop up to the items: the query and what the
\* fetcher finds in the mapping it returns.  The server has items for
\* GqlServerPages queries; it may go on answering hasNextPage after them.
\* The page and the count of queries are kept up to GqlServerPages + 1.
GqlQuery ==
    /\ fpc = "gquery"
    /\ gqueries' = Min(gqueries + 1, GqlServerPages + 1)
    /\ \/ \* requests.post raises
          /\ fpc' = "raised"
          /\ UNCHANGED <<fpage, fleft, fplen, fresult, gdaily, gresp, gdata, gitems>>
       \/ \E resp \in GqlResponses :
            /\ gqueries >= GqlServerPages => resp.data.items = << >>
            /\ gresp' = resp
            /\ LET data == GqlQueryReturn(resp)
                   items == GqlItemsRead(fkind, data)
               IN /\ gdata' = data
                  /\ gitems' = gitems + Len(data.items)
                  /\ gdaily' = AddEvents(gdaily,
                                         {<<i, DayOf(data.items[i].ts), 1>> :
                                            i \in {j \in 1 .. Len(data.items) :
                                                     data.items[j].ts # NoTs}})
                  /\ IF items # << >>
                     THEN /\ fpc' = "gnodes"
                          /\ fleft' = Len(items)
                          /\ fplen' = Len(items)
                          /\ UNCHANGED <<fpage, fresult>>
                     ELSE /\ GqlPageEnd(data, facc)
                          /\ UNCHANGED <<fleft, fplen>>
    /\ UNCHANGED <<fkind, facc, srows, sweeks, sattempt, freqs, ffailed, gassets,
                   flag, entry>>

\* One item of the page: its date is kept when it has one; after the last
\* item, the end of the page.
GqlNode ==
    /\ fpc = "gnodes"
    /\ LET item == gdata.items[fplen - fleft + 1]
           acc == IF item.ts # NoTs /\ ToDate(item.ts) # NoDate
                  THEN BagAdd(facc, ToDate(item.ts), 1) ELSE facc
       IN /\ facc' = acc
          /\ fleft' = fleft - 1
          /\ IF fleft > 1
             THEN UNCHANGED <<fpc, fpage, fresult>>
             ELSE GqlPageEnd(gdata, acc)
    /\ UNCHANGED <<fkind, fplen, srows, sweeks, sattempt, freqs, ffailed, gdaily,
                   gassets, gvars>>

\* <metric>_fetcher.fetch as DataManager calls it, and GitHubFetcher.fetch_all's
\* call for the metric: whether the GraphQL path is taken.
UsesGraphQL(how, kind, use_graphql) ==
    IF how = "fetch_all"
    THEN use_graphql /\ kind \in GraphQLKinds
    ELSE use_graphql /\ kind \in {"stars", "forks"}

\* The entry of a fetcher: the transport is chosen.
FetcherEntry ==
    /\ fpc = "entry"
    /\ fpc' = IF UsesGraphQL(entry, fkind, flag) THEN "gquery"
              ELSE IF fkind = "contributions" THEN "stats" ELSE "request"
    /\ UNCHANGED <<fkind, fpage, fleft, fplen, facc, srows, sweeks, sattempt, freqs,
                   ffailed, fresult, gdaily, gassets, gvars>>

\* --------------------------------------------------- BaseFetcher._request
MaxRetries == 3
InitialBackoff == 2
MaxResetWait == 10
MaxBackoff == 5
\* X-RateLimit-Reset minus the current time, when the header holds digits.
ResetDeltas == {0 - 3, 0, 4, 20}
\* The header of a response: absent, not made of digits, or digits.
ResetHeaders ==
    {[kind |-> "absent", delta |-> 0], [kind |-> "text", delta |-> 0]}
    \cup [kind : {"digits"}, delta : ResetDeltas]
NoHeader == [kind |-> "absent", delta |-> 0]
RequestResponses ==
    [status : {200, 404}, reset : {NoHeader}] \cup [status : {403}, reset : ResetHeaders]
NoResponse == [status |-> 0, reset |-> NoHeader]

\* `if resp.status_code == 403`
IsRateLimitedOrMissing(status) == status \in {403, 404}
IsRateLimited(status) == status = 403

\* A wait with neither cap.
WaitForUncapped(resp, backoff_s) ==
    IF resp.reset.kind = "digits"
    THEN Max(0, resp.reset.delta) + 1
    ELSE backoff_s

\* The wait before the next attempt: from the reset time when the header
\* gives one, capped, else the backoff, capped.
WaitFor(resp, backoff_s) ==
    IF resp.reset.kind = "digits"
    THEN Min(Max(0, resp.reset.delta) + 1, MaxResetWait)
    ELSE Min(backoff_s, MaxBackoff)
\* backoff_s after the wait: doubled, capped, on the backoff branch only.
NextBackoff(resp, backoff_s) ==
    IF resp.reset.kind = "digits" THEN backoff_s
    ELSE Min(backoff_s * 2, MaxBackoff)

\* What the loop does about a rate-limited response before it goes on.
SleepSkipped(w) == << >>
SleepTaken(w) == <<[ev |-> "sleep", w |-> w]>>

ReqIdle ==
    /\ rpc = "idle"
    /\ rattempt = 0
    /\ rbackoff = InitialBackoff
    /\ rwait = 0
    /\ rresps = << >>
    /\ rlog = << >>
    /\ rret = NoResponse
ReqInit ==
    /\ rpc = "send"
    /\ rattempt = 0
    /\ rbackoff = InitialBackoff
    /\ rwait = 0
    /\ rresps = << >>
    /\ rlog = << >>
    /\ rret = NoResponse

\* One pass of the loop up to the status check: requests.get and what comes
\* back.
ReqSend ==
    /\ rpc = "send"
    /\ rattempt < MaxRetries
    /\ rlog' = Append(rlog, [ev |-> "req", w |-> 0])
    /\ \/ \* requests.get raises
          /\ rpc' = "raised"
          /\ UNCHANGED <<rattempt, rbackoff, rwait, rresps, rret>>
       \/ \E resp \in RequestResponses :
            /\ rresps' = Append(rresps, resp)
            /\ IF IsRateLimited(resp.status)
               THEN /\ rpc' = "sleep"
                    /\ rwait' = WaitFor(resp, rbackoff)
                    /\ rbackoff' = NextBackoff(resp, rbackoff)
                    /\ UNCHANGED <<rattempt, rret>>
               ELSE /\ rpc' = "returned"
                    /\ rret' = resp
                    /\ UNCHANGED <<rattempt, rbackoff, rwait>>

\* The rest of the pass for a rate-limited response: the sleep, then the
\* break on the last attempt or the next attempt.
ReqSleep ==
    /\ rpc = "sleep"
    /\ rlog' = rlog \o SleepTaken(rwait)
    /\ IF rattempt = MaxRetries - 1
       THEN /\ rpc' = "returned"
            /\ rret' = rresps[Len(rresps)]
            /\ UNCHANGED rattempt
       ELSE /\ rpc' = "send"
            /\ rattempt' = rattempt + 1
            /\ UNCHANGED rret
    /\ UNCHANGED <<rbackoff, rwait, rresps>>

\* ---------------------------------------------------- any data_type string
\* A data_type that is none of the six.
UnknownTypes == {"releases"}
\* The dict of expected columns that _fetch_and_save_data indexes by
\* data_type, in its body and again in its exception handler.
ExpectedCols == [t \in TypeSet |-> SchemaOf(t)]
\* _fetch_and_save_data(data_type, owner, repo) for a data_type outside the
\* six: the ValueError of the else branch is caught by the handler, whose
\* own lookup by data_type raises KeyError when the dict has no such key;
\* NoFrame stands for a call that returned nothing because it raised.
FetchAndSaveUnknown(data_type) ==
    IF data_type \in DOMAIN ExpectedCols
    THEN Frame(ExpectedCols[data_type], EmptySeries)
    ELSE NoFrame
\* A direct call of _fetch_and_save_data.
FetchAndSaveCall ==
    /\ Idle
    /\ \E data_type \in {focus} \cup UnknownTypes :
         IF data_type \in TypeSet
         THEN /\ ncalls < MaxCalls
              /\ ncalls' = ncalls + 1
              /\ \E fault \in FaultChoices(data_type) :
                   \E wfail \in WriteFailChoices(data_type, fault) :
                     LET r == FetchAndSaveData(data_type, fault, wfail)
                     IN /\ files' = [files EXCEPT ![data_type] = r.file]
                        /\ faulted' = (faulted \/ fault # NoFault \/ wfail)
                        /\ call' = CallRecord("fetch_and_save", data_type, TRUE, TRUE, r,
                                              fault, wfail, LoaderGetFor(data_type), r.ret)
         ELSE /\ call' = [NoCall EXCEPT !.op = "fetch_and_save", !.type = data_type,
                                        !.at = now,
                                        !.ret = FetchAndSaveUnknown(data_type)]
              /\ UNCHANGED <<files, faulted, ncalls>>
    /\ UNCHANGED <<focus, now, remote, remoteWeeks, bulk>>

\* force_fetch_real_data(owner, repo, [data_type]): a type outside
\* self.types is skipped, any other is fetched and saved and gets a key.
ForceFetchOf ==
    /\ Idle
    /\ \E data_type \in {focus} \cup UnknownTypes :
         LET began == [NoBulk EXCEPT !.op = "force_list", !.list = <<data_type>>,
                                     !.idx = 2, !.force = TRUE]
         IN IF data_type \notin TypeSet
            THEN /\ call' = [NoCall EXCEPT !.op = "force_list", !.type = data_type,
                                           !.at = now, !.force = TRUE]
                 /\ bulk' = began
                 /\ UNCHANGED <<files, faulted, ncalls>>
            ELSE /\ ncalls < MaxCalls
                 /\ ncalls' = ncalls + 1
                 /\ \E fault \in FaultChoices(data_type) :
                      \E wfail \in WriteFailChoices(data_type, fault) :
                        LET r == FetchAndSaveData(data_type, fault, wfail)
                        IN /\ files' = [files EXCEPT ![data_type] = r.file]
                           /\ faulted' = (faulted \/ fault # NoFault \/ wfail)
                           /\ call' = CallRecord("force_list", data_type, TRUE, TRUE, r,
                                                 fault, wfail, LoaderGetFor(data_type),
                                                 r.ret)
                           /\ bulk' = [began EXCEPT !.result = Put(@, data_type, r.ret)]
    /\ UNCHANGED <<focus, now, remote, remoteWeeks>>

\* ----------------------------------------------------------- clear_cache
\* The attributes DataManager.__init__ gives an instance; the class has none
\* besides its methods.
InstanceAttributes == {"data_dir", "refresh_threshold_hours", "fetcher", "loader", "types"}
\* DataManager.clear_cache(data_type), data_type "None" for no argument: the
\* read of self.type_to_file raises AttributeError when the instance has no
\* such attribute; else the artifacts it names are removed.
ClearCacheOutcome(data_type) ==
    IF "type_to_file" \notin InstanceAttributes
    THEN [raised |-> TRUE, files |-> files]
    ELSE [raised |-> FALSE,
          files |-> [t \in TypeSet |->
                       IF data_type = "None" \/ t = data_type THEN NoFile ELSE files[t]]]
ClearCache ==
    /\ Idle
    /\ \E data_type \in {focus, "None"} :
         LET r == ClearCacheOutcome(data_type)
         IN /\ files' = r.files
            /\ call' = [NoCall EXCEPT !.op = "clear_cache", !.type = data_type,
                                      !.at = now, !.raised = r.raised,
                                      !.existed = \E t \in TypeSet : files[t].exists]
    /\ UNCHANGED <<focus, now, remote, remoteWeeks, faulted, ncalls, bulk>>

\* ------------------------------------------------------- the dashboard
\* app.get_data(owner, repo, force_refresh): the pass of its loop for one
\* metric.  Unforced, the loader's series is returned when it has rows; else
\* the metric is fetched, through DataManager.get_data(force_refresh=True)
\* when GITHUB_TOKEN is set and by the fetcher alone, with no write, when it
\* is not.  An exception gives the empty series of the metric.
AppFetch(t, has_github_token, fault, wfail) ==
    IF has_github_token THEN FetchAndSaveData(t, fault, wfail)
    ELSE LET got == FetcherFetch(t, remoteWeeks, remote[t], fault)
         IN [ret |-> IF got.raised THEN EmptyFrame(t) ELSE got.frame,
             file |-> files[t], got |-> got]
AppGetData ==
    /\ Idle
    /\ \E t \in {focus}, force_refresh \in BOOLEAN, has_github_token \in BOOLEAN :
         LET cached_data == LoaderGetFor(t)
         IN IF ~force_refresh /\ ~IsEmptyFrame(cached_data)
            THEN /\ call' = CallRecord("app", t, force_refresh, FALSE, NoCall, NoFault,
                                       FALSE, cached_data, cached_data)
                 /\ UNCHANGED <<files, faulted, ncalls>>
            ELSE /\ ncalls < MaxCalls
                 /\ ncalls' = ncalls + 1
                 /\ \E fault \in FaultChoices(t) :
                      \E wfail \in IF has_github_token THEN WriteFailChoices(t, fault)
                                    ELSE {FALSE} :
                        LET r == AppFetch(t, has_github_token, fault, wfail)
                        IN /\ files' = [files EXCEPT ![t] = r.file]
                           /\ faulted' = (faulted \/ fault # NoFault \/ wfail)
                           /\ call' = CallRecord("app", t, force_refresh, TRUE, r, fault,
                                                 wfail, cached_data, r.ret)
    /\ UNCHANGED <<focus, now, remote, remoteWeeks, bulk>>

\* ------------------------------------------------- concurrent refreshes
\* Two processes, each running the pass of get_all_cached_data_for_range for
\* the same metric: the cached series is read, the fetch is made, the fresh
\* series is saved by _fetch_and_save_data, the merged series is persisted.
\* Nothing orders the steps of one process against those of the other.
Procs == {"p1", "p2"}
NoProc == [pc |-> "idle", cached |-> NoFrame, fresh |-> NoFrame,
           merged |-> NoFrame, wrote |-> FALSE]
RaceIdle ==
    /\ procs = [p \in Procs |-> NoProc]
    /\ lastw = NoFrame
RaceInit ==
    /\ procs = [p \in Procs |-> [NoProc EXCEPT !.pc = "read"]]
    /\ lastw = NoFrame

\* df.to_csv(path, index=False): the file is replaced by the frame, whatever
\* it held.
PersistUnion(file, df, t) ==
    IF file.exists THEN Written(MergeFrames(LoadCsv(file.csv), df), t)
    ELSE Written(df, t)
PersistWhole(file, df, t) == Written(df, t)

\* The process reads the cache and decides whether to fetch.
RaceRead(p) ==
    /\ procs[p].pc = "read"
    /\ \E start \in Dates, end \in Dates, force \in BOOLEAN :
         /\ start <= end
         /\ LET t == focus
                cached == IF files[t].exists THEN LoadData(t) ELSE EmptyFrame(t)
            IN procs' = [procs EXCEPT ![p] =
                   IF NeedFetch(t, cached, start, end, force)
                   THEN [@ EXCEPT !.pc = "fetch", !.cached = cached]
                   ELSE [@ EXCEPT !.pc = "done", !.cached = cached,
                                  !.merged = cached]]
    /\ UNCHANGED <<ovars, lastw>>
\* The fetcher runs against the repository as it is now.
RaceFetch(p) ==
    /\ procs[p].pc = "fetch"
    /\ LET got == FetcherFetch(focus, remoteWeeks, remote[focus], NoFault)
       IN procs' = [procs EXCEPT ![p] = [@ EXCEPT !.pc = "save", !.fresh = got.frame]]
    /\ UNCHANGED <<ovars, lastw>>
\* _fetch_and_save_data writes the fresh series.
RaceSave(p) ==
    /\ procs[p].pc = "save"
    /\ files' = [files EXCEPT ![focus] = PersistWhole(@, procs[p].fresh, now)]
    /\ lastw' = procs[p].fresh
    /\ procs' = [procs EXCEPT ![p] = [@ EXCEPT !.pc = "merge"]]
    /\ UNCHANGED <<focus, now, remote, remoteWeeks, faulted, ncalls, call, bulk>>
\* The merged series is persisted and is the process's result.
RaceMerge(p) ==
    /\ procs[p].pc = "merge"
    /\ LET merged == IF IsEmptyFrame(procs[p].cached) THEN procs[p].fresh
                     ELSE MergeFrames(procs[p].cached, procs[p].fresh)
       IN /\ files' = [files EXCEPT ![focus] = PersistWhole(@, merged, now)]
          /\ lastw' = merged
          /\ procs' = [procs EXCEPT ![p] =
                          [@ EXCEPT !.pc = "done", !.merged = merged, !.wrote = TRUE]]
    /\ UNCHANGED <<focus, now, remote, remoteWeeks, faulted, ncalls, call, bulk>>

\* ------------------------------------------------------- specifications
FetchIdle ==
    /\ fkind = "none"
    /\ fpc = "done"
    /\ fpage = 1
    /\ fleft = 0
    /\ fplen = 0
    /\ facc = EmptyBag
    /\ srows = << >>
    /\ sweeks = << >>
    /\ sattempt = 0
    /\ freqs = << >>
    /\ ffailed = 0
    /\ fresult = NoFrame
    /\ gdaily = EmptyBag
    /\ gassets = NoAssets

\* The orchestrator over a remote repository that changes as time passes.
Init == OrchInit /\ FetchIdle /\ ReqIdle /\ GqlIdle /\ RaceIdle
Next ==
    \/ (Tick /\ UNCHANGED <<fvars, rvars, gvars, cvars>>)
    \/ (RemoteEvent /\ UNCHANGED <<fvars, rvars, gvars, cvars>>)
    \/ (GetData /\ UNCHANGED <<fvars, rvars, gvars, cvars>>)
    \/ (RangeBegin /\ UNCHANGED <<fvars, rvars, gvars, cvars>>)
    \/ (RangeFetch /\ UNCHANGED <<fvars, rvars, gvars, cvars>>)
    \/ (RangeMerge /\ UNCHANGED <<fvars, rvars, gvars, cvars>>)
    \/ (ForceBegin /\ UNCHANGED <<fvars, rvars, gvars, cvars>>)
    \/ (ForceFetch /\ UNCHANGED <<fvars, rvars, gvars, cvars>>)
Spec == Init /\ [][Next]_vars

\* One run of a fetcher that pages through a REST listing.
InitRest ==
    FetchInit(RestKinds) /\ OrchInit /\ focus = Types[1] /\ ReqIdle /\ GqlIdle /\ RaceIdle
NextRest ==
    \/ (FetchRequest /\ UNCHANGED <<ovars, rvars, gvars, cvars>>)
    \/ (FetchItem /\ UNCHANGED <<ovars, rvars, gvars, cvars>>)
SpecRest == InitRest /\ [][NextRest]_vars

\* One run of ContributionsFetcher.fetch.
InitContrib ==
    /\ FetchInit({"contributions"}) /\ OrchInit /\ focus = Types[6] /\ ReqIdle /\ GqlIdle
    /\ RaceIdle
NextContrib ==
    \/ (StatsRequest /\ UNCHANGED <<ovars, rvars, gvars, cvars>>)
    \/ (StatsWeek /\ UNCHANGED <<ovars, rvars, gvars, cvars>>)
    \/ (FetchRequest /\ UNCHANGED <<ovars, rvars, gvars, cvars>>)
    \/ (FetchItem /\ UNCHANGED <<ovars, rvars, gvars, cvars>>)
SpecContrib == InitContrib /\ [][NextContrib]_vars

\* One call of BaseFetcher._request; the loop is sequential and its sleeps
\* are finite, so a pass that can be made is made.
InitRequest ==
    ReqInit /\ OrchInit /\ focus = Types[1] /\ FetchIdle /\ GqlIdle /\ RaceIdle
NextRequest ==
    \/ (ReqSend /\ UNCHANGED <<fvars, ovars, gvars, cvars>>)
    \/ (ReqSleep /\ UNCHANGED <<fvars, ovars, gvars, cvars>>)
SpecRequest == InitRequest /\ [][NextRequest]_vars
SpecRequestLive == SpecRequest /\ WF_vars(NextRequest)

\* One fetch of one metric, entered as DataManager._fetch_and_save_data or
\* GitHubFetcher.fetch_all enters it, with the feature flag set or not.
InitFetch ==
    /\ fkind \in TypeSet
    /\ fpc = "entry"
    /\ fpage = 1
    /\ fleft = 0
    /\ fplen = 0
    /\ facc = EmptyBag
    /\ srows = << >>
    /\ sweeks = << >>
    /\ sattempt = 0
    /\ freqs = << >>
    /\ ffailed = 0
    /\ fresult = NoFrame
    /\ gdaily = EmptyBag
    /\ gassets = NoAssets
    /\ flag \in BOOLEAN
    /\ entry \in {"fetch", "fetch_all"}
    /\ gresp = NoGqlResponse
    /\ gdata = EmptyMapping
    /\ gqueries = 0
    /\ gitems = 0
    /\ OrchInit
    /\ focus = fkind
    /\ ReqIdle
    /\ RaceIdle
NextFetch ==
    \/ (FetcherEntry /\ UNCHANGED <<ovars, rvars, cvars>>)
    \/ (GqlQuery /\ UNCHANGED <<ovars, rvars, cvars>>)
    \/ (GqlNode /\ UNCHANGED <<ovars, rvars, cvars>>)
    \/ (FetchRequest /\ UNCHANGED <<ovars, rvars, gvars, cvars>>)
    \/ (FetchItem /\ UNCHANGED <<ovars, rvars, gvars, cvars>>)
    \/ (StatsRequest /\ UNCHANGED <<ovars, rvars, gvars, cvars>>)
    \/ (StatsWeek /\ UNCHANGED <<ovars, rvars, gvars, cvars>>)
SpecFetch == InitFetch /\ [][NextFetch]_vars
\* A fetch is a sequential program: a step that can be made is made.
SpecFetchLive == SpecFetch /\ WF_vars(NextFetch)

\* Two refreshes of one metric at once, while the repository gains activity.
InitRace == OrchInit /\ FetchIdle /\ ReqIdle /\ GqlIdle /\ RaceInit
NextRace ==
    \/ (RemoteEvent /\ UNCHANGED <<fvars, rvars, gvars, cvars>>)
    \/ (\E p \in Procs : RaceRead(p) /\ UNCHANGED <<fvars, rvars, gvars>>)
    \/ (\E p \in Procs : RaceFetch(p) /\ UNCHANGED <<fvars, rvars, gvars>>)
    \/ (\E p \in Procs : RaceSave(p) /\ UNCHANGED <<fvars, rvars, gvars>>)
    \/ (\E p \in Procs : RaceMerge(p) /\ UNCHANGED <<fvars, rvars, gvars>>)
SpecRace == InitRace /\ [][NextRace]_vars

\* The dashboard's load and the operations of DataManager that take one
\* data type, over a repository that changes as time passes.
InitApp == OrchInit /\ FetchIdle /\ ReqIdle /\ GqlIdle /\ RaceIdle
NextApp ==
    \/ (Tick /\ UNCHANGED <<fvars, rvars, gvars, cvars>>)
    \/ (RemoteEvent /\ UNCHANGED <<fvars, rvars, gvars, cvars>>)
    \/ (AppGetData /\ UNCHANGED <<fvars, rvars, gvars, cvars>>)
    \/ (ClearCache /\ UNCHANGED <<fvars, rvars, gvars, cvars>>)
    \/ (FetchAndSaveCall /\ UNCHANGED <<fvars, rvars, gvars, cvars>>)
    \/ (ForceFetchOf /\ UNCHANGED <<fvars, rvars, gvars, cvars>>)
SpecApp == InitApp /\ [][NextApp]_vars

\* ================================================================ claims
\* The artifact of the last call's type is as it was when the call started.
ArtifactUntouched ==
    /\ files[call.type].exists = call.existed
    /\ call.existed => /\ LoadCsv(files[call.type].csv) = call.cached
                       /\ files[call.type].mtime = call.at - call.age
\* The staleness rule, from the artifact as the call found it.
StaleByRule(c) == ~c.existed \/ c.age > RefreshThresholdHours

C2_StalenessRule ==
    call.op # "none" =>
        /\ call.stale <=> (~call.existed \/ call.age > RefreshThresholdHours)
        /\ (call.existed /\ call.age = RefreshThresholdHours) => ~call.stale
\* A get_data found an artifact exactly as old as the threshold.
C2_Witness ==
    /\ call.op = "get_data"
    /\ call.existed
    /\ call.age = RefreshThresholdHours
    /\ ~call.stale
    /\ ~call.fetched

\* C3: with a fresh artifact, two get_data calls in a row with
\* force_refresh=false return identical series, and the second issues no
\* request and leaves the artifact as it was.
C3_Idempotence ==
    (/\ call.op = "get_data"
     /\ ~call.force
     /\ ~StaleByRule(call)
     /\ call.prev.op = "get_data"
     /\ call.prev.type = call.type
     /\ ~call.prev.force
     /\ ~StaleByRule(call.prev))
    => /\ call.ret = call.prev.ret
       /\ call.nreq = 0
       /\ ~call.fetched
       /\ ArtifactUntouched
\* The second of two such calls returned a non-empty series.
C3_Witness ==
    /\ call.op = "get_data"
    /\ ~call.force
    /\ ~StaleByRule(call)
    /\ call.prev.op = "get_data"
    /\ call.prev.type = call.type
    /\ ~call.prev.force
    /\ ~StaleByRule(call.prev)
    /\ ~IsEmptyFrame(call.ret)

\* C4: whenever a fetch raises during get_data or the range-aware retrieval,
\* the series returned is the prior cached series if that series is
\* non-empty, and the empty series of the metric's schema otherwise.
C4_FailureFallback ==
    (call.op \in {"get_data", "range"} /\ call.fetched /\ call.raised) =>
        call.ret = IF ~IsEmptyFrame(call.cached) THEN call.cached
                   ELSE EmptyFrame(call.type)

\* C5: when every request of a refresh comes back non-200 and a non-empty
\* cached series exists, get_data returns that cached series.
C5_TotalFailureFallback ==
    (/\ call.op = "get_data"
     /\ call.fetched
     /\ ~call.raised
     /\ call.fault.how = "status"
     /\ call.nreq = 1
     /\ ~IsEmptyFrame(call.cached))
    => call.ret = call.cached

\* The rows of s whose date is in both a and b carry a value that b has for
\* that date.
CarriesValuesOf(s, a, b) ==
    \A j \in 1 .. Len(s) :
        (s[j].date \in RowDates(a) /\ s[j].date \in RowDates(b)) =>
            \E i \in 1 .. Len(b) : b[i] = s[j]

\* C6: when the range-aware retrieval merges a cached and a fresh series
\* that both have a row for a date, the merged series, returned and
\* persisted, carries the fresh value for that date.
C6_MergeFreshWins ==
    (call.op = "range" /\ call.fetched /\ ~IsEmptyFrame(call.cached)) =>
        /\ CarriesValuesOf(call.ret.rows, call.cached.rows, call.fresh.rows)
        /\ ~call.wfail =>
             CarriesValuesOf(LoadCsv(files[call.type].csv).rows,
                             call.cached.rows, call.fresh.rows)

\* C7: the series returned and persisted by the range-aware retrieval has
\* the dates of the cached series and of the fresh series and no other, one
\* row per date, in ascending order of date.
C7_MergeCorrectness ==
    (call.op = "range" /\ call.fetched) =>
        /\ RowDates(call.ret.rows) =
               RowDates(call.cached.rows) \cup RowDates(call.fresh.rows)
        /\ UniqueDates(call.ret.rows)
        /\ SortedAscending(call.ret.rows)
        /\ ~call.wfail => LoadCsv(files[call.type].csv) = call.ret

\* C8: the series a fetcher returns has strictly unique dates in ascending
\* order, whatever the responses; here for ContributionsFetcher.fetch, by
\* the commit-activity statistics or by the commits listing.
C8_FetcherDatesStrictlyAscending ==
    (fkind = "contributions" /\ fpc = "done") => StrictlyAscending(fresult.rows)

\* C9: every persisted artifact holds a series whose dates are unique and in
\* non-decreasing order.
C9_ArtifactDatesUniqueSorted ==
    \A t \in TypeSet :
        files[t].exists =>
            /\ UniqueDates(LoadCsv(files[t].csv).rows)
            /\ SortedAscending(LoadCsv(files[t].csv).rows)

\* The frame df is the per-day aggregation of the events counted in b: one
\* row per day with an event, in ascending order, carrying the day's total.
IsAggregationOf(df, kind, b) ==
    /\ df.columns = SchemaOf(kind)
    /\ StrictlyAscending(df.rows)
    /\ RowDates(df.rows) = DOMAIN b
    /\ \A i \in 1 .. Len(df.rows) : df.rows[i].value = b[df.rows[i].date]

\* C10: in a REST-paginated fetcher, once page k has come back non-200 after
\* pages 1..k-1 came back 200 with items, the fetch is over, the requests
\* issued are those of pages 1..k and the result is the per-day aggregation
\* of the events of pages 1..k-1.
C10_PartialSuccess ==
    ffailed # 0 =>
        /\ fpc = "done"
        /\ freqs = [i \in 1 .. ffailed |-> i]
        /\ IsAggregationOf(fresult, fkind, gdaily)
\* The second page came back non-200 after a first page with dated events.
C10_Witness ==
    /\ ffailed = 2
    /\ fpc = "done"
    /\ fresult.rows # << >>

\* The per-day totals of the events carried by the first n items of a listing.
RECURSIVE EventsOfPrefix(_, _, _)
EventsOfPrefix(kind, items, n) ==
    IF n = 0 THEN EmptyBag
    ELSE AddEvents(EventsOfPrefix(kind, items, n - 1), ItemEvents(kind, items[n]))

\* C11: when the HTTP call of page k raises after pages 1..k-1 succeeded,
\* get_data returns the series aggregated from pages 1..k-1.
C11_TransportErrorPartial ==
    (/\ call.op = "get_data"
     /\ call.fetched
     /\ call.fault.how = "raise"
     /\ call.fault.page >= 2)
    => IsAggregationOf(call.ret, call.type,
                       EventsOfPrefix(ListingOf(call.type), remote[call.type],
                                      (call.fault.page - 1) * PerPage))

\* The number of requests a _request call has sent.
RequestsSent == Cardinality({i \in 1 .. Len(rlog) : rlog[i].ev = "req"})

\* C12: _request sends at most 3 requests; it returns the first response
\* whose status is not 403 and sends nothing after it; when all 3 responses
\* are 403 it returns the third one and does not raise.
C12_RequestRetryBound ==
    /\ RequestsSent <= 3
    /\ rpc = "returned" =>
         /\ rret = rresps[Len(rresps)]
         /\ RequestsSent = Len(rresps)
         /\ \A i \in 1 .. Len(rresps) - 1 : rresps[i].status = 403
         /\ rret.status = 403 => Len(rresps) = 3
    /\ (Len(rresps) = 3 /\ \A i \in 1 .. 3 : rresps[i].status = 403) =>
         rpc \in {"sleep", "returned"}
\* Three responses were 403 and the third was returned.
C12_Witness ==
    /\ rpc = "returned"
    /\ Len(rresps) = 3
    /\ rret.status = 403
    /\ rret = rresps[3]

\* The responses received are k rate-limited ones with a reset time, then a 200.
RateLimitedThenOk ==
    /\ rresps # << >>
    /\ rresps[Len(rresps)].status = 200
    /\ \A i \in 1 .. Len(rresps) - 1 :
         rresps[i].status = 403 /\ rresps[i].reset.kind = "digits"

\* C13: after k <= 2 responses 403 with a reset time and then a 200, the
\* call has returned the 200 after exactly k+1 requests, with exactly one
\* sleep between consecutive requests and none after the last; and a call of
\* _request always comes to an end.
C13_RateLimitRecovery ==
    /\ [](RateLimitedThenOk =>
            /\ rpc = "returned"
            /\ rret.status = 200
            /\ Len(rresps) <= 3
            /\ Len(rlog) = 2 * Len(rresps) - 1
            /\ \A i \in 1 .. Len(rlog) :
                 rlog[i].ev = (IF i % 2 = 1 THEN "req" ELSE "sleep"))
    /\ <>(rpc \in {"returned", "raised"})
\* Two rate-limited responses, two sleeps, then the 200 was returned.
C13_Witness ==
    /\ RateLimitedThenOk
    /\ Len(rresps) = 3
    /\ Len(rlog) = 5
    /\ rpc = "returned"

\* C14: GitHubGraphQL.query returns the empty mapping whenever the status is
\* not 200 or the body carries a top-level errors list; stated here in its
\* weakest reading, that what is returned then holds no repository data.
C14_GraphQLErrorsGiveEmpty ==
    (gqueries > 0 /\ gresp # NoGqlResponse /\ (gresp.status # 200 \/ gresp.errors))
    => gdata.shape # "conn"

\* C15: ForksFetcher.fetch returns, for every date, the number of forks
\* created on that day, by the REST path and by the GraphQL path.
C15_ForksDailyCounts ==
    (fkind = "forks" /\ entry = "fetch" /\ fpc = "done") =>
        IsAggregationOf(fresult, "forks", gdaily)

\* C16: entered from DataManager, the fetch of stars, forks, PRs and issues
\* goes through GraphQL when the flag is set and through REST when it is not.
C16_FlagSelectsTransport ==
    (entry = "fetch" /\ fkind \in GraphQLKinds /\ fpc = "done") =>
        IF flag THEN gqueries > 0 /\ freqs = << >>
        ELSE gqueries = 0 /\ freqs # << >>

\* C17: IssuesFetcher.fetch_graphql returns, for each day, the number of
\* issue nodes created that day among the pages the server returned.
C17_IssuesGraphQLCounts ==
    (fkind = "issues" /\ gqueries > 0 /\ fpc = "done") =>
        IsAggregationOf(fresult, "issues", gdaily)

\* No response of the fetch carried an item.
ZeroItems == fplen = 0 /\ gitems = 0

\* C20: a fetch whose responses carry no item returns the empty series with
\* the metric's two-column schema.
C20_ZeroItemsEmptySchema ==
    (fpc = "done" /\ ZeroItems) => fresult = EmptyFrame(fkind)
\* Contributions: the statistics and then the commits listing gave nothing.
C20_Witness ==
    /\ fkind = "contributions"
    /\ fpc = "done"
    /\ ZeroItems
    /\ freqs = <<0, 1>>
    /\ ffailed = 0
    /\ fresult = EmptyFrame("contributions")

\* What a refresh observes: the returned series and the artifact it leaves.
Outcome == [ret |-> call.ret, file |-> files[call.type]]
\* The outcome of a refresh at hour `at` whose requests all succeeded and
\* listed nothing.
ZeroActivityOutcome(t, at) ==
    [ret |-> EmptyFrame(t), file |-> Written(EmptyFrame(t), at)]
ZeroActivityRefresh ==
    (/\ call.op = "get_data"
     /\ call.fetched
     /\ call.fault = NoFault
     /\ ~call.wfail
     /\ remote[call.type] = << >>
     /\ remoteWeeks = << >>)
    => Outcome = ZeroActivityOutcome(call.type, call.at)
FirstRequestFailed(c) ==
    c.fetched /\ c.fault.how \in {"status", "raise"} /\ c.fault.page = 1

\* C18: a refresh whose first request fails (non-200 or exception) does not
\* produce the outcome (returned series and artifact) of a refresh whose
\* requests all succeed with zero items.
C18_FailureDistinguishable ==
    (call.op = "get_data" /\ FirstRequestFailed(call) /\ remote[call.type] # << >>)
    => Outcome # ZeroActivityOutcome(call.type, call.at)

\* The cached series covers [start, end] and its artifact is not time-stale.
ServableFromCache(c, start, end) ==
    /\ ~IsEmptyFrame(c.cached)
    /\ MinDateOf(c.cached.rows) <= start
    /\ MaxDateOf(c.cached.rows) >= end
    /\ ~StaleByRule(c)
RangePass ==
    bulk.op = "range" /\ ~bulk.force /\ call.op \in {"range", "range_fetch"}

C19_ServedWitness ==
    RangePass /\ ~call.fetched /\ call.type = focus

\* C21: StarsFetcher.fetch_rest and fetch_graphql return, for each day, the
\* number of stargazer events of the pages read whose timestamp falls on that
\* day, and nothing for an event without a timestamp; the values add up to
\* the number of events with a timestamp.
C21_StarsAggregation ==
    (fkind = "stars" /\ fpc = "done") =>
        /\ IsAggregationOf(fresult, "stars", gdaily)
        /\ BagTotal(facc) = BagTotal(gdaily)
\* Two events on one day and one the next, by REST.
C21_Witness ==
    /\ fkind = "stars"
    /\ fpc = "done"
    /\ freqs # << >>
    /\ gqueries = 0
    /\ fresult = Frame(<<"date", "stars">>, <<Row(1, 2), Row(2, 1)>>)
\* The same by GraphQL.
C21_GraphQLWitness ==
    /\ fkind = "stars"
    /\ fpc = "done"
    /\ freqs = << >>
    /\ gqueries > 0
    /\ fresult = Frame(<<"date", "stars">>, <<Row(1, 2), Row(2, 1)>>)

\* The days with commits of the week buckets received: bucket k, day i.
CommitDays ==
    {ki \in (1 .. Len(sweeks)) \X (1 .. WeekLen) :
        ki[2] <= Len(sweeks[ki[1]].days) /\ sweeks[ki[1]].days[ki[2]] > 0}
\* The commit-activity path gave the series returned.
FromStats == fkind = "contributions" /\ fpc = "done" /\ srows # << >>

\* C22: the series made from the commit-activity week buckets holds the row
\* (week start + i days, days[i]) for each day i of each bucket with
\* days[i] > 0, once per such day, and no other row; a day without commits
\* has no row.
C22_CommitActivityExpansion ==
    FromStats =>
        /\ Len(fresult.rows) = Cardinality(CommitDays)
        /\ \A ki \in CommitDays :
             LET r == Row(DayOf(sweeks[ki[1]].week) + ki[2] - 1,
                          sweeks[ki[1]].days[ki[2]])
             IN Cardinality({j \in 1 .. Len(fresult.rows) : fresult.rows[j] = r})
                = Cardinality({x \in CommitDays :
                                 /\ DayOf(sweeks[x[1]].week) + x[2] - 1 = r.date
                                 /\ sweeks[x[1]].days[x[2]] = r.value})
        /\ \A j \in 1 .. Len(fresult.rows) : fresult.rows[j].value > 0
\* One bucket with no commit on its first day and two on its second.
C22_Witness ==
    /\ FromStats
    /\ Len(sweeks) = 1
    /\ sweeks[1].days = <<0, 2>>
    /\ fresult.rows = <<Row(DayOf(sweeks[1].week) + 1, 2)>>

\* The number of events counted in b on or before day d.
TotalUpTo(b, d) == BagTotal([e \in {x \in DOMAIN b : x <= d} |-> b[e]])
ForksByGraphQL == fkind = "forks" /\ gqueries > 0 /\ fpc = "done"

RECURSIVE SeriesTotal(_)
SeriesTotal(rows) ==
    IF rows = << >> THEN 0 ELSE Head(rows).value + SeriesTotal(Tail(rows))
DownloadsDone == fkind = "downloads" /\ fpc = "done"

C25_IssuesRestCapped ==
    fkind = "issues" =>
        /\ Len(freqs) <= IssuesMaxPages
        /\ freqs = [i \in 1 .. Len(freqs) |-> i]
        /\ BagTotal(facc) = BagTotal(gdaily)
        /\ fpc = "request" => BagTotal(facc) <= IssuesRowCap
        /\ fpc = "done" => IsAggregationOf(fresult, "issues", gdaily)
\* Two full pages, one of whose four items was not counted, and the row cap
\* ended the fetch before the page limit.
C25_Witness ==
    /\ fkind = "issues"
    /\ fpc = "done"
    /\ freqs = <<1, 2>>
    /\ fplen = PerPage
    /\ BagTotal(facc) < Len(freqs) * PerPage
    /\ BagTotal(facc) > IssuesRowCap
    /\ Len(freqs) < IssuesMaxPages
\* The page limit ended the fetch.
C25_PageLimitWitness ==
    /\ fkind = "issues"
    /\ fpc = "done"
    /\ Len(freqs) = IssuesMaxPages
    /\ fplen = PerPage

\* A pass of force_fetch_real_data's loop is about to run.
ForcePass == bulk.op = "force" /\ ~Idle
\* The pass fetches the next of downloads and contributions whatever the age
\* of its artifact, and touches no artifact but that one.
ForcePassStep ==
    ForcePass =>
        /\ bulk.list[bulk.idx] \in {"downloads", "contributions"}
        /\ call'.op = "force"
        /\ call'.type = bulk.list[bulk.idx]
        /\ call'.fetched
        /\ call'.nreq >= 1
        /\ \A t \in TypeSet \ {bulk.list[bulk.idx]} : files'[t] = files[t]
\* While the call runs its result has keys among the two, and at the end
\* exactly the two.
ForceResultKeys ==
    bulk.op = "force" =>
        /\ DOMAIN bulk.result \subseteq {"downloads", "contributions"}
        /\ Idle => DOMAIN bulk.result = {"downloads", "contributions"}

\* C26: force_fetch_real_data with its default arguments fetches exactly
\* downloads and contributions, whether or not their artifacts are fresh,
\* leaves the artifacts of stars, forks, PRs and issues as they were, and
\* returns a mapping with exactly the keys downloads and contributions.
C26_ForceFetchFrame ==
    []ForceResultKeys /\ [][ForcePassStep]_vars
\* The call is over and its last pass fetched contributions although the
\* artifact was fresh.
C26_Witness ==
    /\ bulk.op = "force"
    /\ Idle
    /\ DOMAIN bulk.result = {"downloads", "contributions"}
    /\ call.op = "force"
    /\ call.type = "contributions"
    /\ call.fetched
    /\ call.existed
    /\ ~call.stale

\* What the range-aware retrieval makes of a cached and a fresh series.
MergedOf(c) ==
    IF IsEmptyFrame(c.cached) THEN c.fresh ELSE MergeFrames(c.cached, c.fresh)

\* C27: when the write of the artifact fails, get_data still returns the
\* series it fetched, and the range-aware retrieval still carries the
\* fetched series into the merge and returns the merged series; the
\* artifact is left as it was.
C27_WriteFailureKeepsResult ==
    /\ (call.op = "get_data" /\ call.fetched /\ call.wfail) =>
           /\ call.ret = call.fresh
           /\ ArtifactUntouched
    /\ (bulk.op = "range" /\ call.op = "range_fetch" /\ call.wfail) =>
           /\ bulk.fresh = call.fresh
           /\ ArtifactUntouched
    /\ (bulk.op = "range" /\ call.op = "range" /\ call.fetched /\ call.wfail) =>
           /\ call.ret = MergedOf(call)
           /\ bulk.result[call.type] = call.ret
\* get_data returned a series with rows although no artifact could be written.
C27_Witness ==
    /\ call.op = "get_data"
    /\ call.fetched
    /\ call.wfail
    /\ call.ret.rows # << >>
    /\ ~files[call.type].exists
\* The range-aware retrieval returned a merged series it could not persist.
C27_RangeWitness ==
    /\ bulk.op = "range"
    /\ call.op = "range"
    /\ call.fetched
    /\ call.wfail
    /\ call.ret.rows # << >>
    /\ LoaderGetFor(call.type) # call.ret

\* The dates of the series the artifact holds.
ArtifactDates(t) ==
    IF files[t].exists THEN RowDates(LoadCsv(files[t].csv).rows) ELSE {}
\* Both processes are done, and the artifact lacks a row of a series that
\* process q fetched and wrote.
LostUpdateOf(q) ==
    /\ \A p \in Procs : procs[p].pc = "done"
    /\ procs[q].wrote
    /\ RowDates(procs[q].fresh.rows) \ ArtifactDates(focus) # {}

\* C28: nothing locks the artifact and every write replaces the whole file,
\* so the artifact is at all times the frame of the last write alone; an
\* interleaving of two refreshes of the same key ends with an artifact that
\* lacks rows one of them fetched and wrote (the witness).
C28_LastWriteAlone ==
    (\E p \in Procs : procs[p].pc # "idle") =>
        /\ files[focus].exists <=> lastw # NoFrame
        /\ files[focus].exists => LoadCsv(files[focus].csv) = lastw
C28_Witness == \E q \in Procs : LostUpdateOf(q)

\* C29: every fetch comes to an end whatever the server answers, each
\* pagination loop having a fixed bound on the pages it requests.
C29_FetchTerminates == <>(fpc \in {"done", "raised"})

\* C30: when the first request of a get_data refresh of a stale artifact
\* comes back non-200, the artifact keeps its content and its modification
\* time, hence is still stale for the next get_data.
C30_FailedRefreshKeepsArtifact ==
    (/\ call.op = "get_data"
     /\ FirstRequestFailed(call)
     /\ call.fault.how = "status"
     /\ call.existed
     /\ call.stale
     /\ ~IsEmptyFrame(call.cached))
    => /\ ArtifactUntouched
       /\ now = call.at => IsDataStale(call.type)

\* C31: during and after the pass of the range-aware retrieval for a metric,
\* between its two writes and when the merged write fails included, the
\* artifact holds every date the cached series had when the pass started.
C31_RangeKeepsCachedDates ==
    (bulk.op = "range" /\ call.op \in {"range_fetch", "range"}) =>
        RowDates(call.cached.rows) \subseteq ArtifactDates(call.type)

\* The requests of one contributions fetch, by position in freqs: those of
\* the commit-activity statistics and those of the commits listing.
StatsRequests == {i \in 1 .. Len(freqs) : freqs[i] = 0}
CommitsRequests == {i \in 1 .. Len(freqs) : freqs[i] >= 1}

C32_StatsWitness ==
    /\ fkind = "contributions" /\ fpc = "done"
    /\ srows # << >> /\ fresult.rows = SortValuesByDate(srows)
    /\ Len(freqs) > 1

\* The listings whose loop breaks after a short page, and those that go on.
ShortPageKinds == {"prs", "issues", "commits", "downloads"}
FullScanKinds == {"stars", "forks"}
\* The loop has handled the items of a page and ends the fetch.
StopsAfterItems == fpc = "items" /\ fpc' = "done"

\* C33: the listing fetchers request the pages 1, 2, 3, ... in order; the
\* pull-request, issue, release and commit listings are never asked for
\* another page after a page with fewer than per_page items, and the star
\* and fork listings end after a page with items only at max_pages.
C33_ShortPageStop ==
    /\ [](\A i \in 1 .. Len(freqs) : freqs[i] = i)
    /\ []((fkind \in ShortPageKinds /\ fpc = "request" /\ freqs # << >>)
            => fplen = PerPage)
    /\ [][(fkind \in FullScanKinds /\ StopsAfterItems) => fpage = MaxPages]_vars
    /\ [][(fkind \in FullScanKinds /\ fpc = "request" /\ fpc' = "done")
             => (fplen' = fplen /\ facc' = facc)]_vars
C33_Witness ==
    /\ fkind \in ShortPageKinds /\ fpc = "done"
    /\ fplen > 0 /\ fplen < PerPage
    /\ Len(freqs) < PageLimit(fkind)
    /\ ffailed = 0
C33_FullScanWitness ==
    /\ fkind \in FullScanKinds /\ fpc = "request"
    /\ freqs # << >> /\ fplen < PerPage

\* The sleeps of one _request call in order, the i-th being the one taken
\* on the i-th response, and the seconds they add up to.
SleepsOf(log) == SelectSeq(log, LAMBDA e : e.ev = "sleep")
RECURSIVE TotalSlept(_)
TotalSlept(sleeps) ==
    IF sleeps = << >> THEN 0 ELSE Head(sleeps).w + TotalSlept(Tail(sleeps))
\* How many of the first i responses carried no usable reset time.
BackoffsUpTo(i) == Cardinality({j \in 1 .. i : rresps[j].reset.kind # "digits"})
BackoffSleeps == <<2, 4, 5>>

\* C34: in one _request call a sleep on a 403 with a numeric reset header
\* lasts min(max(0, reset - now) + 1, 10) seconds, between 1 and 10; the
\* first, second and third sleep on a 403 without one last 2, 4 and 5
\* seconds; the sleeps of the call add up to at most 30 seconds.
C34_SleepDurations ==
    LET sleeps == SleepsOf(rlog)
    IN /\ Len(sleeps) <= Len(rresps)
       /\ \A i \in 1 .. Len(sleeps) :
            /\ rresps[i].status = 403
            /\ IF rresps[i].reset.kind = "digits"
               THEN /\ sleeps[i].w = Min(Max(0, rresps[i].reset.delta) + 1, 10)
                    /\ sleeps[i].w >= 1 /\ sleeps[i].w <= 10
               ELSE sleeps[i].w = BackoffSleeps[BackoffsUpTo(i)]
       /\ TotalSlept(sleeps) <= 30
C34_Witness ==
    /\ rpc = "returned"
    /\ Len(SleepsOf(rlog)) = MaxRetries
    /\ \E i, j \in 1 .. MaxRetries :
         /\ rresps[i].reset.kind = "digits" /\ rresps[i].reset.delta > MaxResetWait
         /\ rresps[j].reset.kind # "digits"
C34_BackoffWitness ==
    /\ rpc = "returned"
    /\ Len(SleepsOf(rlog)) = MaxRetries
    /\ BackoffsUpTo(MaxRetries) = MaxRetries
C34_LongestWitness == rpc = "returned" /\ TotalSlept(SleepsOf(rlog)) = 30

\* A GraphQL loop is about to query again: the cursor it sends is the
\* endCursor of the page in gdata, null when that page had none.
QueriesAgain == fkind \in GraphQLKinds /\ fpc = "gquery" /\ gqueries > 0
CarriesEndCursor == gdata.shape = "conn" /\ gdata.more /\ gdata.cursor

\* C35: every query of a GraphQL loop after the first carries the endCursor
\* of the page before it; after a page that reports a next page and no
\* endCursor the fetcher stops and does not query again with a null cursor,
\* which would return the first page and count its events again.
C35_CursorCarried == QueriesAgain => CarriesEndCursor
C35_StarsCursorCarried == (QueriesAgain /\ fkind = "stars") => CarriesEndCursor

\* A fetcher has returned a series.
FetcherReturned == fpc = "done" /\ fresult # NoFrame

\* C36: every row of a series returned by a fetcher, by either transport,
\* has a value of at least 1.
C36_ValuesAtLeastOne ==
    FetcherReturned => \A i \in 1 .. Len(fresult.rows) : fresult.rows[i].value >= 1
C36_Witness ==
    /\ FetcherReturned /\ fkind = "downloads"
    /\ fresult.rows # << >>
    /\ gassets.dated > 0
    /\ Len(freqs) > 1
    /\ SeriesTotal(fresult.rows) = gassets.dated
C36_StatsWitness ==
    /\ FetcherReturned /\ fkind = "contributions" /\ fresult.rows # << >>
    /\ \E w \in 1 .. Len(sweeks) : \E d \in 1 .. Len(sweeks[w].days) :
         sweeks[w].days[d] = 0

\* C37: an unforced load of the dashboard fetches every metric whose
\* artifact is stale by the staleness rule, the artifact that holds a
\* non-empty series included.
C37_AppHonoursStaleness ==
    (call.op = "app" /\ ~call.force /\ call.stale) => call.fetched
\* The same for the artifacts that are missing or hold no row.
C37_AppFetchesWhenNoRows ==
    (call.op = "app" /\ ~call.force /\ IsEmptyFrame(call.cached)) => call.fetched

\* The artifacts clear_cache is asked to remove.
ClearedTypes(c) == IF c.type = "None" THEN TypeSet ELSE {c.type}

\* C38: after clear_cache() no artifact exists for any of the six metric
\* types, so each is stale, and after clear_cache(t) the artifact of t does
\* not exist; the artifacts it was not asked to remove are left as they were.
C38_ClearCacheRemoves ==
    /\ [](call.op = "clear_cache" =>
             \A t \in ClearedTypes(call) : ~files[t].exists /\ IsDataStale(t))
    /\ [][(call'.op = "clear_cache" /\ call' # call) =>
             \A t \in TypeSet \ ClearedTypes(call') : files'[t] = files[t]]_vars
\* The part of it about the artifacts that are to stay.
C38_OthersUntouched ==
    [][(call'.op = "clear_cache" /\ call' # call) =>
         \A t \in TypeSet \ ClearedTypes(call') : files'[t] = files[t]]_vars

\* A call for a data_type outside the six.
UnknownTypeCall(op) == call.op = op /\ call.type \notin TypeSet

\* C39: _fetch_and_save_data raises for no data_type: for one outside the
\* six it returns an empty series and writes no artifact; and
\* force_fetch_real_data skips such a type, with no fetch and no key for it.
C39_UnknownTypeHandled ==
    /\ [](call.op = "fetch_and_save" => call.ret # NoFrame)
    /\ [](UnknownTypeCall("fetch_and_save") => IsEmptyFrame(call.ret) /\ ~call.fetched)
    /\ [](UnknownTypeCall("force_list") => ~call.fetched /\ DOMAIN bulk.result = {})
    /\ [][(call' # call /\ call'.type \notin TypeSet
            /\ call'.op \in {"fetch_and_save", "force_list"}) => files' = files]_vars
\* The part of it about force_fetch_real_data and about the artifacts.
C39_ForceSkipsUnknown ==
    /\ [](UnknownTypeCall("force_list") => ~call.fetched /\ DOMAIN bulk.result = {})
    /\ [][(call' # call /\ call'.type \notin TypeSet
            /\ call'.op \in {"fetch_and_save", "force_list"}) => files' = files]_vars
\* _fetch_and_save_data for the six types returns a series of the schema.
C39_KnownTypesReturn ==
    (call.op = "fetch_and_save" /\ call.type \in TypeSet) =>
        call.ret.columns = SchemaOf(call.type)
====
